---- MODULE Spec2Model ----
(***************************************************************************)
(* State-machine model of the nanomaterial-toxicity prediction service:    *)
(* the startup loader and the request handlers of api/index.py and         *)
(* webapp/app.py.                                                          *)
(*                                                                         *)
(* Representation.  A JSON number is held in tenths (25.0 is 250, 7.4 is   *)
(* 74).  A class probability is held in millionths (0.7 is 700000), a      *)
(* percentage p * 100 in millionths of a percent, and a percentage rounded *)
(* to two decimals in hundredths of a percent (70.0 is 7000).  The model's  *)
(* output is a triple: the two class probabilities in millionths and the   *)
(* number of doubles by which the toxic probability lies above the double  *)
(* nearest to its millionths (0 for 0.7 itself, 1 for 0.7000000000000001). *)
(***************************************************************************)
EXTENDS Integers, Sequences, FiniteSets, TLC

VARIABLES
    app,             \* which Flask application this process runs
    files,           \* the artifact files found on disk at startup
    pc,              \* "startup" before load_ml_model() has run, then "serving"
    model,           \* module global `model`
    scaler,          \* module global `scaler`
    feature_info,    \* module global `feature_info`
    request,         \* the request being answered (method-independent: endpoint and body)
    prediction_prob, \* model.predict_proba(...)[0] of the request being answered
    calls,           \* library calls made on scaler and model while answering it
    response,        \* the answer of the handler
    errors           \* number of exceptions caught at a handler boundary so far

vars == <<app, files, pc, model, scaler, feature_info, request, prediction_prob,
          calls, response, errors>>

(***************************************************************************)
(* Bounds of the model.                                                    *)
(***************************************************************************)
\* Length of the short feature lists a feature_info.pkl may hold.
WindowLen == 3
\* Handler exceptions counted before the count saturates.
MaxErrors == 1
\* Ticks by which the system clock is set back when it is set back.
ClockStep == 3
\* Doubles above a threshold probability that the model's output may lie.
MaxUlps == 2

(***************************************************************************)
(* JSON values and request bodies.                                         *)
(***************************************************************************)
Num(whole, tenths) == [kind |-> "num", n |-> whole * 10 + tenths, s |-> ""]
Str(text) == [kind |-> "str", n |-> 0, s |-> text]
Null == [kind |-> "null", n |-> 0, s |-> ""]

\* The feature names of the deployed service, in the order of the request the
\* deployment check sends.
FeatureOrder ==
    << "particle_size_nm", "surface_area_m2g", "concentration_mgl", "ph",
       "temperature_c", "zeta_potential_mv", "material_type", "exposure_time_h",
       "aspect_ratio" >>

Keys == {FeatureOrder[i] : i \in 1..Len(FeatureOrder)}

\* The request body of the deployment check.
test_data ==
    [k \in Keys |->
        CASE k = "particle_size_nm"  -> Num(25, 0)
          [] k = "surface_area_m2g"  -> Num(150, 0)
          [] k = "concentration_mgl" -> Num(100, 0)
          [] k = "ph"                -> Num(7, 4)
          [] k = "temperature_c"     -> Num(25, 0)
          [] k = "zeta_potential_mv" -> Num(-30, 0)
          [] k = "material_type"     -> Num(1, 0)
          [] k = "exposure_time_h"   -> Num(24, 0)
          [] k = "aspect_ratio"      -> Num(1, 5)]

\* A parsed body: what request.get_json() hands to the handler.  kind is the
\* JSON type ("invalid" for a body that is no JSON at all); map holds the
\* members of an object; items holds the feature names that Python's `in`
\* finds in an array (its elements) or in a string (its substrings).
NoMap == [k \in {} |-> Null]
Object(m) == [kind |-> "object", map |-> m, items |-> {}]
Array(names) == [kind |-> "array", map |-> NoMap, items |-> names]
String(names) == [kind |-> "string", map |-> NoMap, items |-> names]
Scalar(kind) == [kind |-> kind, map |-> NoMap, items |-> {}]

\* m without key k.
Without(m, k) == [j \in (DOMAIN m) \ {k} |-> m[j]]
\* m with key k set to v.
With(m, k, v) == [j \in (DOMAIN m) \cup {k} |-> IF j = k THEN v ELSE m[j]]

Absent == [kind |-> "absent", n |-> 0, s |-> ""]
Edit(m, k, v) == IF v = Absent THEN Without(m, k) ELSE With(m, k, v)

(***************************************************************************)
(* Python operations on request values.                                    *)
(***************************************************************************)
\* A Python float: finite (n, in tenths) or infinite.
Finite(n) == [exc |-> "", inf |-> FALSE, n |-> n]
Infinite == [exc |-> "", inf |-> TRUE, n |-> 0]
Raised(exc) == [exc |-> exc, inf |-> FALSE, n |-> 0]

\* float(s) of a string: "30" is 30.0, "inf" is infinity, "abc" is no number.
ParseFloat(s) ==
    CASE s = "30"  -> Finite(300)
      [] s = "inf" -> Infinite
      [] OTHER     -> Raised("ValueError")

\* Variant of Float: a value that is no number counts as 0.0.
FloatOrZero(v) ==
    CASE v.kind = "num" -> Finite(v.n)
      [] v.kind = "str" -> IF ParseFloat(v.s).exc = "" THEN ParseFloat(v.s) ELSE Finite(0)
      [] OTHER          -> Finite(0)

\* float(v): a number converts to itself, a string is parsed, None is refused.
Float(v) ==
    CASE v.kind = "num" -> Finite(v.n)
      [] v.kind = "str" -> ParseFloat(v.s)
      [] OTHER          -> Raised("TypeError")

\* `feature_name in data` raises for None and for a number.
InRaises(data) == data.kind \in {"null", "number"}
\* `feature_name in data`, for the other bodies.
In(name, data) ==
    IF data.kind = "object" THEN name \in DOMAIN data.map ELSE name \in data.items

\* Variant of ExtractFrom: an absent name is read as 0.0 instead of ending the
\* request.
RECURSIVE ExtractDefaulting(_, _, _, _)
ExtractDefaulting(data, names, i, features) ==
    IF i > Len(names)
    THEN [outcome |-> "ok", name |-> "", exc |-> "", features |-> features]
    ELSE LET name == names[i]
             stop(outcome, exc) ==
                 [outcome |-> outcome, name |-> name, exc |-> exc, features |-> features]
         IN  IF InRaises(data) THEN stop("raise", "TypeError")
             ELSE IF ~In(name, data)
             THEN ExtractDefaulting(data, names, i + 1,
                                    Append(features, [inf |-> FALSE, n |-> 0]))
             ELSE IF data.kind # "object" THEN stop("raise", "TypeError")
             ELSE LET value == Float(data.map[name])
                  IN  IF value.exc # "" THEN stop("raise", value.exc)
                      ELSE ExtractDefaulting(data, names, i + 1,
                                             Append(features,
                                                    [inf |-> value.inf, n |-> value.n]))

\* The loop of the handlers over feature_names: float(data[name]) of every listed
\* name in order; the first absent name ends it ("missing"), the first exception
\* ends it ("raise").
RECURSIVE ExtractFrom(_, _, _, _)
ExtractFrom(data, names, i, features) ==
    IF i > Len(names)
    THEN [outcome |-> "ok", name |-> "", exc |-> "", features |-> features]
    ELSE LET name == names[i]
             stop(outcome, exc) ==
                 [outcome |-> outcome, name |-> name, exc |-> exc, features |-> features]
         IN  IF InRaises(data) THEN stop("raise", "TypeError")
             ELSE IF ~In(name, data) THEN stop("missing", "")
             ELSE IF data.kind # "object" THEN stop("raise", "TypeError")
             ELSE LET value == Float(data.map[name])
                  IN  IF value.exc # "" THEN stop("raise", value.exc)
                      ELSE ExtractFrom(data, names, i + 1,
                                       Append(features, [inf |-> value.inf, n |-> value.n]))

Extract(data, names) == ExtractFrom(data, names, 1, << >>)

\* scaler.transform(features_array) refuses a vector holding an infinity.
TransformRaises(features) == \E i \in 1..Len(features) : features[i].inf

(***************************************************************************)
(* Interpretation of a prediction.                                         *)
(***************************************************************************)
\* Probability 1.0, in millionths.
ProbOne == 100 * 100 * 100

\* Thresholds of the risk bucket, in percent.
HighRiskPct == 70
MediumRiskPct == 40

\* p * 100, in millionths of a percent.
Percent(p) == p * 100

\* The double nearest to p millionths minus p millionths, in hundredths of the
\* spacing of the doubles around it: 0.7 is held 0.4 of a spacing below 0.7, 0.4
\* is held 0.4 of a spacing above 0.4.
ReprError(p) ==
    CASE p = 7 * 100000 -> -40
      [] p = 4 * 100000 -> 40
      [] OTHER          -> 0

\* a / b rounded to the nearest integer (b > 0, no tie among the cases used).
RoundDiv(a, b) == (2 * a + b) \div (2 * b)

\* The doubles around p * 100 are 128 times as far apart as those around p, and
\* the product is rounded to the nearest of them: the number of doubles by
\* which float(p) * 100 lies above the double of the exact percentage, for the
\* double that lies `ulps` doubles above the nearest to p millionths.
PercentExcess(p, ulps) == RoundDiv(100 * ulps + ReprError(p), 128)

\* prediction_prob[1] * 100 as the float the code compares with 70 and 40: in
\* millionths of a percent, the doubles above it counted in the last two digits.
ToxicPercent(prob) == Percent(prob[2]) + PercentExcess(prob[2], prob[3])

\* prediction_prob[1] as the float the code compares with 0.7 and 0.4: in
\* hundred-millionths, the doubles above it counted in the last two digits.
ToxicDouble(prob) == prob[2] * 100 + prob[3]

Max2(a, b) == IF a >= b THEN a ELSE b

\* round(x, 2) of a percentage x, in hundredths of a percent.  A value halfway
\* between two hundredths goes either way: its binary representation decides.
Round2Set(x) ==
    LET q == x \div 10000
        r == x % 10000
    IN  IF r < 5000 THEN {q} ELSE IF r > 5000 THEN {q + 1} ELSE {q, q + 1}

\* Variant of Confidence: the toxic percentage, whichever class is larger.
ConfidenceOfToxic(prob, r0, r1) == r1

\* round(max(prediction_prob) * 100, 2): the rounded percentage of the larger
\* probability (r0 and r1 are the two percentages, rounded).
Confidence(prob, r0, r1) == IF prob[1] >= prob[2] THEN r0 ELSE r1

\* model.predict(features_scaled)[0]: the class of the larger probability, the
\* first class on a tie.
PredictClass(prob) == IF prob[2] > prob[1] THEN 1 ELSE 0

PredictionText(prediction_class) == IF prediction_class = 1 THEN "Toxic" ELSE "Non-Toxic"

\* Variant of RiskLevel: the thresholds belong to the upper bucket.
RiskLevelInclusive(toxic_prob) ==
    IF toxic_prob >= HighRiskPct * ProbOne THEN "High"
    ELSE IF toxic_prob >= MediumRiskPct * ProbOne THEN "Medium"
    ELSE "Low"

\* The risk bucket of /predict, from toxic_prob (a percentage).
RiskLevel(toxic_prob) ==
    IF toxic_prob > HighRiskPct * ProbOne THEN "High"
    ELSE IF toxic_prob > MediumRiskPct * ProbOne THEN "Medium"
    ELSE "Low"

\* data.get(key, default)
Get(data, key, default) ==
    IF key \in DOMAIN data.map THEN data.map[key] ELSE Num(default, 0)

\* Variant of Compare: the orderings include the threshold.
CompareInclusive(v, op, c) ==
    CASE v.kind # "num" -> FALSE
      [] op = "<"       -> v.n <= c * 10
      [] op = ">"       -> v.n >= c * 10
      [] OTHER          -> v.n = c * 10

\* v < c, v > c and v == c of Python for a raw request value v and an integer c:
\* ordering a string or None against a number raises, equality does not.
CompareRaises(v, op) == v.kind # "num" /\ op # "=="
Compare(v, op, c) ==
    CASE v.kind # "num" -> FALSE
      [] op = "<"       -> v.n < c * 10
      [] op = ">"       -> v.n > c * 10
      [] OTHER          -> v.n = c * 10

\* Thresholds of the key risk factors.
SmallParticleNm == 50
HighSurfaceArea == 100
HighConcentration == 100
MetalType == 1
HighAspectRatio == 10

\* The five checks of /predict on the raw request, in the order of the code.
RiskChecks ==
    << [key |-> "particle_size_nm", default |-> 0, op |-> "<", c |-> SmallParticleNm,
        text |-> "Small particle size increases bioavailability"],
       [key |-> "surface_area_m2g", default |-> 0, op |-> ">", c |-> HighSurfaceArea,
        text |-> "High surface area enhances reactivity"],
       [key |-> "concentration_mgl", default |-> 0, op |-> ">", c |-> HighConcentration,
        text |-> "High concentration increases exposure risk"],
       [key |-> "material_type", default |-> 0, op |-> "==", c |-> MetalType,
        text |-> "Metal nanoparticles can have higher toxicity"],
       [key |-> "aspect_ratio", default |-> 1, op |-> ">", c |-> HighAspectRatio,
        text |-> "High aspect ratio (fiber-like) may cause inflammation"] >>

\* Variant of RunChecks: the checks form an if/elif chain, so the first check
\* that holds ends the run.
RECURSIVE RunChecksElif(_, _, _, _)
RunChecksElif(checks, data, i, list) ==
    IF i > Len(checks) THEN [exc |-> "", list |-> list]
    ELSE LET chk == checks[i]
             v == Get(data, chk.key, chk.default)
         IN  IF CompareRaises(v, chk.op) THEN [exc |-> "TypeError", list |-> list]
             ELSE IF Compare(v, chk.op, chk.c)
             THEN [exc |-> "", list |-> Append(list, chk.text)]
             ELSE RunChecksElif(checks, data, i + 1, list)

\* A run of independent `if data.get(key, default) <op> c: list.append(text)`
\* statements: the list built, or the exception of the first comparison that raises.
RECURSIVE RunChecks(_, _, _, _)
RunChecks(checks, data, i, list) ==
    IF i > Len(checks) THEN [exc |-> "", list |-> list]
    ELSE LET chk == checks[i]
             v == Get(data, chk.key, chk.default)
         IN  IF CompareRaises(v, chk.op) THEN [exc |-> "TypeError", list |-> list]
             ELSE RunChecks(checks, data, i + 1,
                            IF Compare(v, chk.op, chk.c) THEN Append(list, chk.text)
                            ELSE list)

RiskFactors(data) == RunChecks(RiskChecks, data, 1, << >>)

(***************************************************************************)
(* Feature importances of /predict.                                        *)
(***************************************************************************)
\* The importance a trained forest gives a feature, in millionths: the two
\* leading ones apart, then features of equal importance around the fifth place.
ImportanceOf(name) ==
    CASE name = "material_type"     -> 200000
      [] name = "particle_size_nm"  -> 182345
      [] name = "surface_area_m2g"  -> 150000
      [] name = "concentration_mgl" -> 130000
      [] name = "zeta_potential_mv" -> 100000
      [] name = "exposure_time_h"   -> 100000
      [] name = "ph"                -> 50000
      [] name = "temperature_c"     -> 50000
      [] OTHER                      -> 37655

\* model.feature_importances_ of the model trained on the listed features.
feature_importances_(names) == [i \in 1..Len(names) |-> ImportanceOf(names[i])]

\* round(v, 4), from millionths to ten-thousandths (no importance of the model
\* lies halfway between two ten-thousandths).
Round4(v) == IF v % 100 < 50 THEN v \div 100 ELSE v \div 100 + 1

\* Variant of Before: the sort is ascending.
BeforeAscending(imps, i, j) == imps[i] < imps[j] \/ (imps[i] = imps[j] /\ i < j)

\* Item i comes before item j in sorted(..., key=lambda x: x[1], reverse=True):
\* the larger importance first, and equal ones in the order of the list (the
\* sort is stable).
Before(imps, i, j) == imps[i] > imps[j] \/ (imps[i] = imps[j] /\ i < j)

\* The positions that [:5] keeps.
TopFive(imps) ==
    {i \in DOMAIN imps : Cardinality({j \in DOMAIN imps : Before(imps, j, i)}) < 5}

\* result['feature_importance']
FeatureImportance(names) ==
    LET imps == feature_importances_(names)
    IN  [name \in {names[i] : i \in TopFive(imps)} |->
            Round4(imps[CHOOSE i \in 1..Len(names) : names[i] = name])]

(***************************************************************************)
(* Per-feature analysis of /detailed-analysis.                             *)
(***************************************************************************)
\* Thresholds of the per-feature risk tiers.
TierParticleNm == 50
TierSurfaceArea == 200
TierConcentration == 500
TierZetaMv == 15

Abs(n) == IF n < 0 THEN -n ELSE n

\* Variant of FeatureRisk: the tiers use the thresholds of the risk-factor list.
FeatureRiskShared(name, value) ==
    IF name = "particle_size_nm" /\ value.n < SmallParticleNm * 10 THEN "High"
    ELSE IF name = "surface_area_m2g" /\ value.n > HighSurfaceArea * 10 THEN "Medium"
    ELSE IF name = "concentration_mgl" /\ value.n > HighConcentration * 10 THEN "High"
    ELSE IF name = "zeta_potential_mv" /\ Abs(value.n) < TierZetaMv * 10 THEN "Medium"
    ELSE "Low"

\* Variant of FeatureRisk: the zeta potential is compared without abs().
FeatureRiskSigned(name, value) ==
    IF name = "particle_size_nm" /\ value.n < TierParticleNm * 10 THEN "High"
    ELSE IF name = "surface_area_m2g" /\ value.n > TierSurfaceArea * 10 THEN "Medium"
    ELSE IF name = "concentration_mgl" /\ value.n > TierConcentration * 10 THEN "High"
    ELSE IF name = "zeta_potential_mv" /\ value.n < TierZetaMv * 10 THEN "Medium"
    ELSE "Low"

\* The if/elif chain giving one listed feature its tier, from its float value.
FeatureRisk(name, value) ==
    IF name = "particle_size_nm" /\ value.n < TierParticleNm * 10 THEN "High"
    ELSE IF name = "surface_area_m2g" /\ value.n > TierSurfaceArea * 10 THEN "Medium"
    ELSE IF name = "concentration_mgl" /\ value.n > TierConcentration * 10 THEN "High"
    ELSE IF name = "zeta_potential_mv" /\ Abs(value.n) < TierZetaMv * 10 THEN "Medium"
    ELSE "Low"

\* analysis['feature_analysis']: one entry per listed feature.
FeatureAnalysis(names, features) ==
    [name \in {names[i] : i \in 1..Len(names)} |->
        LET i == CHOOSE j \in 1..Len(names) : names[j] = name
        IN  [value |-> features[i].n, risk_level |-> FeatureRisk(name, features[i])]]

\* charts_data['risk_distribution']: the number of entries of feature_analysis
\* in each tier.
RiskDistribution(analysis) ==
    [tier \in {"Low", "Medium", "High"} |->
        Cardinality({name \in DOMAIN analysis : analysis[name].risk_level = tier})]

\* The overall risk of /detailed-analysis, from the toxic probability p in
\* hundred-millionths (> 0.7 High, > 0.4 Medium).
OverallRisk(p) ==
    IF p * 10 > 7 * ProbOne * 100 THEN "High"
    ELSE IF p * 10 > 4 * ProbOne * 100 THEN "Medium"
    ELSE "Low"

\* The three recommendation checks on the raw request, in the order of the code.
RecommendationChecks ==
    << [key |-> "particle_size_nm", default |-> 0, op |-> "<", c |-> TierParticleNm,
        text |-> "Consider larger particle sizes to reduce bioavailability"],
       [key |-> "concentration_mgl", default |-> 0, op |-> ">", c |-> TierConcentration,
        text |-> "Reduce concentration to minimize exposure risk"],
       [key |-> "surface_area_m2g", default |-> 0, op |-> ">", c |-> TierSurfaceArea,
        text |-> "Monitor surface reactivity due to high surface area"] >>

Recommendations(data) == RunChecks(RecommendationChecks, data, 1, << >>)

(***************************************************************************)
(* Responses.                                                              *)
(***************************************************************************)
NoImportance == [name \in {} |-> 0]
NoAnalysis == [name \in {} |-> [value |-> 0, risk_level |-> ""]]
NoDistribution == [tier \in {"Low", "Medium", "High"} |-> 0]

\* No response: every field at its rest value.
NoResponse ==
    [status |-> 0, error |-> "", detail |-> "", status_log |-> << >>,
     timestamps |-> << >>,
     prediction |-> -1, prediction_text |-> "", confidence |-> -1,
     non_toxic |-> -1, toxic |-> -1, risk_level |-> "", risk_factors |-> << >>,
     feature_importance |-> NoImportance,
     feature_analysis |-> NoAnalysis, risk_distribution |-> NoDistribution,
     overall_risk |-> "",
     safety_recommendations |-> << >>,
     model_loaded |-> FALSE, scaler_loaded |-> FALSE, features_loaded |-> FALSE,
     names |-> << >>]

\* Variant of ErrorResponse: the status trace is dropped from an error answer.
ErrorResponseNoTrace(status, error, detail, status_log) ==
    [NoResponse EXCEPT !.status = status, !.error = error, !.detail = detail]

\* jsonify({'error': error ...}), status: detail is the feature name of a
\* 'Missing feature' error and the exception of a '... failed' error.
ErrorResponse(status, error, detail, status_log) ==
    [NoResponse EXCEPT !.status = status, !.error = error, !.detail = detail,
                       !.status_log = status_log]

\* Variant of StatusEntry: every entry is appended as 'processing'.
StatusEntryProcessing(step, status) == [step |-> step, status |-> "processing"]

\* One entry of status_log (its 'timestamp' is held in timestamps).
StatusEntry(step, status) == [step |-> step, status |-> status]

\* The values of time.time() - start_time at the eight appends of one request,
\* in ticks: the clock advances by `rate` ticks between two readings, and when
\* back is not 0 it is set back by ClockStep ticks just before reading `back`
\* (time.time() is the wall clock of the system, not a monotonic one).
Ticks(rate, back) ==
    [i \in 1..8 |-> rate * i - (IF back # 0 /\ i >= back THEN ClockStep ELSE 0)]

\* The clock during a request: standing still (a request faster than the clock's
\* resolution), advancing, or advancing and set back before the fifth reading.
ClockRuns == {Ticks(0, 0), Ticks(1, 0), Ticks(1, 5)}

\* The 'timestamp' keys of the entries of resp.status_log, in order: entry i
\* carries the i-th reading of the clock.
Stamped(resp, clock) ==
    [resp EXCEPT !.timestamps = SubSeq(clock, 1, Len(resp.status_log))]

\* The 'feature_importance' key of a result of /predict.
WithImportance(resp, names) ==
    IF resp.status = 200
    THEN [resp EXCEPT !.feature_importance = FeatureImportance(names)]
    ELSE resp

(***************************************************************************)
(* The body of predict() after the loaded check.                           *)
(***************************************************************************)
\* From request.get_json() to scaler.transform(): either the response that ends
\* the request there, or the features and the trace to go on with.
PredictExtract(data, names) ==
    LET log1 == << StatusEntry("validation", "processing") >>
        ext == Extract(data, names)
        log3 == log1 \o << StatusEntry("validation", "completed"),
                           StatusEntry("preprocessing", "processing") >>
        done(resp, made) == [ended |-> TRUE, response |-> resp, calls |-> made,
                              features |-> << >>, status_log |-> << >>]
    IN  IF data.kind = "invalid"
        THEN done(ErrorResponse(500, "Prediction failed", "BadRequest", << >>), {})
        ELSE IF ext.outcome = "raise"
        THEN done(ErrorResponse(500, "Prediction failed", ext.exc, log1), {})
        ELSE IF ext.outcome = "missing"
        THEN done(ErrorResponse(400, "Missing feature", ext.name, log1), {})
        ELSE IF TransformRaises(ext.features)
        THEN done(ErrorResponse(500, "Prediction failed", "ValueError", log3),
                  {"scaler.transform"})
        ELSE [ended |-> FALSE, response |-> NoResponse, calls |-> {"scaler.transform"},
              features |-> ext.features,
              status_log |-> log3 \o << StatusEntry("preprocessing", "completed"),
                                        StatusEntry("prediction", "processing") >>]

\* From model.predict_proba() to the return: prob is the probability pair the
\* model gives, r0 and r1 its two percentages rounded to two decimals.
PredictInterpret(data, status_log, prob, r0, r1) ==
    LET prediction_class == PredictClass(prob)
        log7 == status_log \o << StatusEntry("prediction", "completed"),
                                 StatusEntry("interpretation", "processing") >>
        toxic_prob == ToxicPercent(prob)
        factors == RiskFactors(data)
    IN  IF factors.exc # ""
        THEN ErrorResponse(500, "Prediction failed", factors.exc, log7)
        ELSE [NoResponse EXCEPT
                !.status = 200,
                !.prediction = prediction_class,
                !.prediction_text = PredictionText(prediction_class),
                !.confidence = Confidence(prob, r0, r1),
                !.non_toxic = r0,
                !.toxic = r1,
                !.risk_level = RiskLevel(toxic_prob),
                !.risk_factors = factors.list,
                !.status_log = Append(log7, StatusEntry("interpretation", "completed"))]

(***************************************************************************)
(* The body of detailed_analysis() after the loaded check.                 *)
(***************************************************************************)
AnalysisExtract(data, names) ==
    LET ext == Extract(data, names)
        done(resp, made) == [ended |-> TRUE, response |-> resp, calls |-> made,
                              features |-> << >>]
    IN  IF data.kind = "invalid"
        THEN done(ErrorResponse(500, "Analysis failed", "BadRequest", << >>), {})
        ELSE IF ext.outcome = "raise"
        THEN done(ErrorResponse(500, "Analysis failed", ext.exc, << >>), {})
        ELSE IF ext.outcome = "missing"
        THEN done(ErrorResponse(400, "Missing feature", ext.name, << >>), {})
        ELSE IF TransformRaises(ext.features)
        THEN done(ErrorResponse(500, "Analysis failed", "ValueError", << >>),
                  {"scaler.transform"})
        ELSE [ended |-> FALSE, response |-> NoResponse, calls |-> {"scaler.transform"},
              features |-> ext.features]

AnalysisInterpret(data, names, features, prob, r0, r1) ==
    LET prediction_class == PredictClass(prob)
        recommendations == Recommendations(data)
    IN  IF recommendations.exc # ""
        THEN ErrorResponse(500, "Analysis failed", recommendations.exc, << >>)
        ELSE [NoResponse EXCEPT
                !.status = 200,
                !.prediction = prediction_class,
                !.prediction_text = PredictionText(prediction_class),
                !.confidence = Confidence(prob, r0, r1),
                !.non_toxic = r0,
                !.toxic = r1,
                !.feature_analysis = FeatureAnalysis(names, features),
                !.risk_distribution = RiskDistribution(FeatureAnalysis(names, features)),
                !.overall_risk = OverallRisk(ToxicDouble(prob)),
                !.safety_recommendations = recommendations.list]

(***************************************************************************)
(* Inputs: artifact files, request bodies, model outputs.                  *)
(***************************************************************************)
Apps == {"api", "webapp"}

\* The feature lists a feature_info.pkl may hold: the deployed list, its first
\* WindowLen names and its last WindowLen names.
FeatureLists ==
    {FeatureOrder,
     SubSeq(FeatureOrder, 1, WindowLen),
     SubSeq(FeatureOrder, Len(FeatureOrder) - WindowLen + 1, Len(FeatureOrder))}

FileStates == {"missing", "corrupt", "ok"}

\* What startup finds on disk: each file is missing, unreadable by pickle, or
\* a valid pickle; names is the feature list of a valid feature_info.pkl, and
\* "empty" is a feature_info.pkl that is the valid pickle of an empty dict.
Disks ==
    {[model |-> m, scaler |-> s, feature |-> f, names |-> names] :
        m \in FileStates, s \in FileStates, f \in {"missing", "corrupt", "empty"},
        names \in {<< >>}}
    \cup
    {[model |-> m, scaler |-> s, feature |-> f, names |-> names] :
        m \in FileStates, s \in FileStates, f \in {"ok"}, names \in FeatureLists}

\* The file names load_ml_model() opens.
model_path == "nanomaterial_toxicity_model.pkl"
scaler_path == "feature_scaler.pkl"
feature_path == "feature_info.pkl"

\* Variant of TrainerFiles: the trainer pickles its model under the name the
\* server opens.
TrainerFilesPickled ==
    {"nanomaterial_toxicity_model.pkl", "feature_scaler.pkl", "feature_names.pkl"}

\* The files create_and_train_model() of model_trainer.py writes.
TrainerFiles == {"nanomaterial_toxicity_model.h5", "feature_scaler.pkl", "feature_names.pkl"}

\* What startup finds in a directory holding exactly the files named, each of
\* them readable by pickle.
DiskHolding(directory) ==
    [model |-> IF model_path \in directory THEN "ok" ELSE "missing",
     scaler |-> IF scaler_path \in directory THEN "ok" ELSE "missing",
     feature |-> IF feature_path \in directory THEN "ok" ELSE "missing",
     names |-> IF feature_path \in directory THEN FeatureOrder ELSE << >>]

\* Objects with at most two members of the deployment check's body removed or
\* replaced by a string, and with one member replaced by "inf" or null.
EditValues == {Absent, Str("30"), Str("abc")}
RareValues == {Str("inf"), Null}
EditedMaps ==
    UNION {{Edit(Edit(test_data, k1, v1), k2, v2) :
               v1 \in EditValues, v2 \in EditValues \cup {test_data[k2]}} :
           k1 \in Keys, k2 \in Keys}
    \cup {test_data}
    \cup {Edit(test_data, k, v) : k \in Keys, v \in RareValues}

\* Bodies that are no JSON object.
OtherBodies ==
    {Scalar("invalid"), Scalar("null"), Scalar("number"),
     Array({}), Array({"particle_size_nm"}), String({}), String({"material_type"})}

Bodies == {Object(m) : m \in EditedMaps} \cup OtherBodies

\* The numbers a field takes in the numeric requests: each field that a
\* threshold of the handlers reads takes values on both sides of it.
NumericValues(k) ==
    CASE k = "particle_size_nm"  -> {Num(25, 0), Num(30, 0), Num(50, 0)}
      [] k = "surface_area_m2g"  -> {Num(100, 0), Num(150, 0), Num(250, 0)}
      [] k = "concentration_mgl" -> {Num(100, 0), Num(300, 0), Num(600, 0)}
      [] k = "zeta_potential_mv" -> {Num(-30, 0), Num(10, 0)}
      [] k = "material_type"     -> {Num(0, 0), Num(1, 0)}
      [] k = "aspect_ratio"      -> {Num(1, 5), Num(10, 0), Num(12, 0)}
      [] OTHER                   -> {test_data[k]}

\* Objects holding a number for every name.
NumericMaps ==
    {[k \in Keys |->
        CASE k = "particle_size_nm"  -> ps
          [] k = "surface_area_m2g"  -> sa
          [] k = "concentration_mgl" -> conc
          [] k = "zeta_potential_mv" -> zeta
          [] k = "material_type"     -> mt
          [] k = "aspect_ratio"      -> ar
          [] OTHER                   -> test_data[k]] :
        ps \in NumericValues("particle_size_nm"),
        sa \in NumericValues("surface_area_m2g"),
        conc \in NumericValues("concentration_mgl"),
        zeta \in NumericValues("zeta_potential_mv"),
        mt \in NumericValues("material_type"),
        ar \in NumericValues("aspect_ratio")}

NumericBodies == {Object(m) : m \in NumericMaps}

\* Toxic-class probabilities a model may give, in millionths.
ToxicProbs == {0, 333350, 400000, 400040, 500000, 500040, 700000, 700040, 1000000}

\* The probabilities the handlers compare the toxic probability with.
ThresholdProbs == {4 * 100000, 7 * 100000}

\* model.predict_proba(features_scaled)[0]: the doubles nearest to the
\* probabilities above, and the doubles just above the two thresholds.
ModelOutputs ==
    {<<ProbOne - p, p, 0>> : p \in ToxicProbs}
    \cup {<<ProbOne - p, p, ulps>> : p \in ThresholdProbs, ulps \in 1..MaxUlps}

None == "None"
NoFeatureInfo == [none |-> TRUE, empty |-> FALSE, names |-> << >>]
\* pickle.load() of a valid feature_info.pkl.
Unpickled(disk) == [none |-> FALSE, empty |-> disk.feature = "empty", names |-> disk.names]
NoRequest == [endpoint |-> "", data |-> Scalar("none")]

\* Python truth of a global: None is false, a loaded object is true.
Truthy(object) == object # None
\* Python truth of feature_info: None and an empty dict are false.
TruthyInfo(info) == ~info.none /\ ~info.empty

(***************************************************************************)
(* Startup.                                                                *)
(***************************************************************************)
\* Variant of LoadApi: the paths are not checked, and a file that is missing is
\* replaced by a fresh default object.
LoadApiUnchecked(disk) ==
    IF disk.model = "corrupt"
    THEN [model |-> None, scaler |-> None, feature_info |-> NoFeatureInfo]
    ELSE IF disk.scaler = "corrupt"
    THEN [model |-> "RandomForestClassifier", scaler |-> None,
          feature_info |-> NoFeatureInfo]
    ELSE IF disk.feature = "corrupt"
    THEN [model |-> "RandomForestClassifier", scaler |-> "StandardScaler",
          feature_info |-> NoFeatureInfo]
    ELSE [model |-> "RandomForestClassifier", scaler |-> "StandardScaler",
          feature_info |-> [none |-> FALSE, empty |-> disk.feature = "empty",
                            names |-> IF disk.feature = "ok" THEN disk.names
                                      ELSE IF disk.feature = "empty" THEN << >>
                                      ELSE FeatureOrder]]

\* load_ml_model() of api/index.py: all three paths are checked before any is
\* opened, then the files are unpickled in order and the first failure returns.
LoadApi(disk) ==
    IF "missing" \in {disk.model, disk.scaler, disk.feature} \/ disk.model = "corrupt"
    THEN [model |-> None, scaler |-> None, feature_info |-> NoFeatureInfo]
    ELSE IF disk.scaler = "corrupt"
    THEN [model |-> "RandomForestClassifier", scaler |-> None,
          feature_info |-> NoFeatureInfo]
    ELSE IF disk.feature = "corrupt"
    THEN [model |-> "RandomForestClassifier", scaler |-> "StandardScaler",
          feature_info |-> NoFeatureInfo]
    ELSE [model |-> "RandomForestClassifier", scaler |-> "StandardScaler",
          feature_info |-> Unpickled(disk)]

\* Variant of LoadWebapp: each file is loaded in a try block of its own, so a
\* failure leaves the later files to be loaded.
LoadWebappEach(disk) ==
    [model |-> IF disk.model = "ok" THEN "RandomForestClassifier" ELSE None,
     scaler |-> IF disk.scaler = "ok" THEN "StandardScaler" ELSE None,
     feature_info |-> IF disk.feature \in {"missing", "corrupt"} THEN NoFeatureInfo
                      ELSE Unpickled(disk)]

\* load_ml_model() of webapp/app.py: the files are opened and unpickled in
\* order; the first missing or unreadable one raises and ends the load.
LoadWebapp(disk) ==
    IF disk.model # "ok"
    THEN [model |-> None, scaler |-> None, feature_info |-> NoFeatureInfo]
    ELSE IF disk.scaler # "ok"
    THEN [model |-> "RandomForestClassifier", scaler |-> None,
          feature_info |-> NoFeatureInfo]
    ELSE IF disk.feature \in {"missing", "corrupt"}
    THEN [model |-> "RandomForestClassifier", scaler |-> "StandardScaler",
          feature_info |-> NoFeatureInfo]
    ELSE [model |-> "RandomForestClassifier", scaler |-> "StandardScaler",
          feature_info |-> Unpickled(disk)]

Init ==
    /\ app \in Apps
    /\ files \in Disks
    /\ pc = "startup"
    /\ model = None
    /\ scaler = None
    /\ feature_info = NoFeatureInfo
    /\ request = NoRequest
    /\ prediction_prob = << >>
    /\ calls = {}
    /\ response = NoResponse
    /\ errors = 0

\* The module-level call of load_ml_model().
LoadMlModel ==
    /\ pc = "startup"
    /\ LET loaded == IF app = "api" THEN LoadApi(files) ELSE LoadWebapp(files)
       IN  /\ model' = loaded.model
           /\ scaler' = loaded.scaler
           /\ feature_info' = loaded.feature_info
    /\ pc' = "serving"
    /\ UNCHANGED <<app, files, request, prediction_prob, calls, response, errors>>

(***************************************************************************)
(* Request handlers.  A handler runs while no response is outstanding and  *)
(* leaves its response; Reply hands it to the client.                      *)
(***************************************************************************)
Serving == pc = "serving" /\ response.status = 0

\* Variant of Answer: a handler retries the load of a scaler that startup left
\* unloaded.
AnswerReloading(endpoint, data, resp, made, prob, caught) ==
    /\ request' = [endpoint |-> endpoint, data |-> data]
    /\ response' = resp
    /\ calls' = made
    /\ prediction_prob' = prob
    /\ errors' = IF caught /\ errors < MaxErrors THEN errors + 1 ELSE errors
    /\ scaler' = IF scaler = None /\ files.scaler = "ok" THEN "StandardScaler" ELSE scaler
    /\ UNCHANGED <<app, files, pc, model, feature_info>>

\* The handler returns resp, having made the library calls `made`, with
\* prediction_prob = prob; caught tells whether it ended in its except clause.
\* No handler declares the globals, so none of them is assigned.
Answer(endpoint, data, resp, made, prob, caught) ==
    /\ request' = [endpoint |-> endpoint, data |-> data]
    /\ response' = resp
    /\ calls' = made
    /\ prediction_prob' = prob
    /\ errors' = IF caught /\ errors < MaxErrors THEN errors + 1 ELSE errors
    /\ UNCHANGED <<app, files, pc, model, scaler, feature_info>>

NotLoaded == ~Truthy(model) \/ ~Truthy(scaler) \/ ~TruthyInfo(feature_info)

InferenceCalls == {"scaler.transform", "model.predict_proba", "model.predict"}

\* POST /predict
Predict(data) ==
    /\ Serving
    /\ IF NotLoaded
       THEN Answer("/predict", data,
                   ErrorResponse(500, "Model not loaded properly", "", << >>),
                   {}, << >>, FALSE)
       ELSE LET pre == PredictExtract(data, feature_info.names)
            IN  IF pre.ended
                THEN \E clock \in ClockRuns :
                       Answer("/predict", data, Stamped(pre.response, clock),
                              pre.calls, << >>, pre.response.status = 500)
                ELSE \E prob \in ModelOutputs, clock \in ClockRuns :
                           \E r0 \in Round2Set(Percent(prob[1])),
                              r1 \in Round2Set(Percent(prob[2])) :
                             LET resp == PredictInterpret(data, pre.status_log,
                                                          prob, r0, r1)
                             IN  Answer("/predict", data,
                                        WithImportance(Stamped(resp, clock),
                                                       feature_info.names),
                                        InferenceCalls, prob, resp.status = 500)

\* POST /detailed-analysis
DetailedAnalysis(data) ==
    /\ Serving
    /\ IF NotLoaded
       THEN Answer("/detailed-analysis", data,
                   ErrorResponse(500, "Model not loaded properly", "", << >>),
                   {}, << >>, FALSE)
       ELSE LET pre == AnalysisExtract(data, feature_info.names)
            IN  IF pre.ended
                THEN Answer("/detailed-analysis", data, pre.response, pre.calls, << >>,
                            pre.response.status = 500)
                ELSE \E prob \in ModelOutputs :
                           \E r0 \in Round2Set(Percent(prob[1])),
                              r1 \in Round2Set(Percent(prob[2])) :
                             LET resp == AnalysisInterpret(data, feature_info.names,
                                                           pre.features, prob, r0, r1)
                             IN  Answer("/detailed-analysis", data, resp,
                                        InferenceCalls, prob, resp.status = 500)

\* GET /health
HealthCheck ==
    /\ Serving
    /\ Answer("/health", Scalar("none"),
              [NoResponse EXCEPT !.status = 200,
                                 !.model_loaded = (model # None),
                                 !.scaler_loaded = (scaler # None),
                                 !.features_loaded = ~feature_info.none],
              {}, << >>, FALSE)

\* GET /features
GetFeatures ==
    /\ Serving
    /\ Answer("/features", Scalar("none"),
              IF TruthyInfo(feature_info)
              THEN [NoResponse EXCEPT !.status = 200, !.names = feature_info.names]
              ELSE ErrorResponse(500, "Model not loaded", "", << >>),
              {}, << >>, FALSE)

\* GET /model-info
ModelInfo ==
    /\ Serving
    /\ Answer("/model-info", Scalar("none"),
              IF Truthy(model)
              THEN [NoResponse EXCEPT !.status = 200, !.names = feature_info.names]
              ELSE ErrorResponse(500, "Model not loaded", "", << >>),
              {}, << >>, FALSE)

\* GET /team
Team ==
    /\ Serving
    /\ Answer("/team", Scalar("none"), [NoResponse EXCEPT !.status = 200],
              {}, << >>, FALSE)

\* GET /
Index ==
    /\ Serving
    /\ Answer("/", Scalar("none"), [NoResponse EXCEPT !.status = 200],
              {}, << >>, FALSE)

\* A request for a path that has no route: the 404 handler of api/index.py, the
\* framework's own 404 page in webapp/app.py.
NotFound ==
    /\ Serving
    /\ Answer("/unknown", Scalar("none"),
              ErrorResponse(404, IF app = "api" THEN "Endpoint not found" ELSE "Not Found",
                            "", << >>),
              {}, << >>, FALSE)

\* The response leaves the process; the handler's locals are gone.
Reply ==
    /\ pc = "serving"
    /\ response.status # 0
    /\ request' = NoRequest
    /\ response' = NoResponse
    /\ calls' = {}
    /\ prediction_prob' = << >>
    /\ UNCHANGED <<app, files, pc, model, scaler, feature_info, errors>>

Next ==
    \/ LoadMlModel
    \/ \E data \in Bodies : Predict(data)
    \/ \E data \in Bodies : DetailedAnalysis(data)
    \/ HealthCheck
    \/ GetFeatures
    \/ ModelInfo
    \/ Team
    \/ Index
    \/ NotFound
    \/ Reply

Spec == Init /\ [][Next]_vars

(***************************************************************************)
(* The handlers on well-formed numeric requests: the process has started   *)
(* with all three artifacts valid and receives objects of numbers.         *)
(***************************************************************************)
InitNumeric ==
    /\ app \in Apps
    /\ files \in {d \in Disks : d.model = "ok" /\ d.scaler = "ok" /\ d.feature = "ok"}
    /\ pc = "serving"
    /\ model = "RandomForestClassifier"
    /\ scaler = "StandardScaler"
    /\ feature_info = Unpickled(files)
    /\ request = NoRequest
    /\ prediction_prob = << >>
    /\ calls = {}
    /\ response = NoResponse
    /\ errors = 0

NextNumeric ==
    \/ \E data \in NumericBodies : Predict(data)
    \/ \E data \in NumericBodies : DetailedAnalysis(data)
    \/ Reply

SpecNumeric == InitNumeric /\ [][NextNumeric]_vars

(***************************************************************************)
(* Properties.                                                             *)
(***************************************************************************)
Responded(endpoint) == request.endpoint = endpoint /\ response.status # 0
RespondedExtraction ==
    request.endpoint \in {"/predict", "/detailed-analysis"} /\ response.status # 0
AllLoaded == model # None /\ scaler # None /\ ~feature_info.none /\ ~feature_info.empty
PredictOk == request.endpoint = "/predict" /\ response.status = 200
AnalysisOk == request.endpoint = "/detailed-analysis" /\ response.status = 200

Range(seq) == {seq[i] : i \in 1..Len(seq)}
ListedNames == Range(feature_info.names)
Body == request.data.map

\* Values float() accepts: numbers and numeric strings.
Coercible(v) == v.kind = "num" \/ (v.kind = "str" /\ v.s \in {"30", "inf"})

LacksListedName ==
    request.data.kind = "object" /\ \E name \in ListedNames : name \notin DOMAIN Body

\* Position in the feature list of the first name the body lacks.
FirstAbsent ==
    CHOOSE i \in 1..Len(feature_info.names) :
        /\ feature_info.names[i] \notin DOMAIN Body
        /\ \A j \in 1..(i - 1) : feature_info.names[j] \in DOMAIN Body

NamesFirstAbsent ==
    /\ response.status = 400
    /\ response.error = "Missing feature"
    /\ response.detail = feature_info.names[FirstAbsent]
    /\ response.detail \notin DOMAIN Body

\* C1 as stated: with the artifacts loaded, a JSON object lacking a listed name
\* is answered 400 'Missing feature: <first absent name>' by /predict and
\* /detailed-analysis whatever the values of the keys it holds, and neither the
\* scaler nor the model is called.
C1_Original ==
    (AllLoaded /\ RespondedExtraction /\ LacksListedName)
        => (NamesFirstAbsent /\ calls = {})

\* C1 amended: a JSON object lacking a listed name never reaches the scaler or
\* the model, and it is answered 400 'Missing feature: <first absent name>' when
\* the listed names before the first absent one hold values float() accepts,
\* and 500 otherwise.
C1_MissingFeature ==
    (AllLoaded /\ RespondedExtraction /\ LacksListedName)
        => /\ calls = {}
           /\ IF \A j \in 1..(FirstAbsent - 1) : Coercible(Body[feature_info.names[j]])
              THEN NamesFirstAbsent
              ELSE response.status = 500

\* A 400 naming a name that is not the first of the list, for a body that holds
\* a non-numeric string under a later listed name.
C1_Witness ==
    /\ AllLoaded /\ RespondedExtraction /\ LacksListedName
    /\ NamesFirstAbsent
    /\ FirstAbsent > 1
    /\ \E j \in (FirstAbsent + 1)..Len(feature_info.names) :
          /\ feature_info.names[j] \in DOMAIN Body
          /\ Body[feature_info.names[j]] = Str("abc")

ArtifactsAbsent ==
    files.model = "missing" /\ files.scaler = "missing" /\ files.feature = "missing"

\* C2: when the artifact files are absent at startup the process still starts,
\* every GET /health answers 200 with model_loaded false, and every POST
\* /predict answers 500 'Model not loaded properly' whatever its body, without
\* a call on the scaler or the model.
C2_AbsentArtifacts ==
    ArtifactsAbsent =>
        /\ pc = "startup" => ENABLED LoadMlModel
        /\ Responded("/health") => (response.status = 200 /\ ~response.model_loaded)
        /\ Responded("/predict") =>
              /\ response.status = 500
              /\ response.error = "Model not loaded properly"
              /\ calls = {}

\* The deployment check's well-formed body answered 500 with no artifact on disk.
C2_Witness ==
    /\ ArtifactsAbsent
    /\ Responded("/predict")
    /\ request.data = Object(test_data)
    /\ response.status = 500

SumsTo100 ==
    /\ response.non_toxic + response.toxic >= 10000 - 1
    /\ response.non_toxic + response.toxic <= 10000 + 1

LabelAndText ==
    /\ response.prediction \in {0, 1}
    /\ response.prediction_text = "Toxic" <=> response.prediction = 1
    /\ response.prediction_text = "Non-Toxic" <=> response.prediction = 0

\* C3 as stated: a 200 response of /predict has probabilities summing to 100
\* within rounding, confidence equal to the larger of the two percentages, and
\* prediction 1 / 'Toxic' exactly when the toxic percentage of the response is
\* the larger of the two (0 / 'Non-Toxic' otherwise).
C3_Original ==
    PredictOk =>
        /\ SumsTo100
        /\ response.confidence = Max2(response.non_toxic, response.toxic)
        /\ LabelAndText
        /\ response.prediction = 1 <=> response.toxic > response.non_toxic

\* C3 amended: the probabilities sum to 100 within rounding, confidence is the
\* larger of the two percentages, and prediction is 1 / 'Toxic' exactly when the
\* unrounded toxic probability is the larger one; the rounded toxic percentage is
\* then at least the non-toxic one (the two can round to the same value), and it
\* is at most the non-toxic one when prediction is 0.
C3_Probabilities ==
    PredictOk =>
        /\ SumsTo100
        /\ response.confidence = Max2(response.non_toxic, response.toxic)
        /\ LabelAndText
        /\ response.prediction = 1 <=> prediction_prob[2] > prediction_prob[1]
        /\ response.prediction = 1 => response.toxic >= response.non_toxic
        /\ response.prediction = 0 => response.non_toxic >= response.toxic

\* A 'Toxic' response whose two percentages round to the same value.
C3_Witness ==
    /\ PredictOk
    /\ response.prediction = 1
    /\ response.toxic = response.non_toxic

\* C4: in a 200 response of /predict, risk_level is 'High' exactly when the
\* toxic percentage is above 70, 'Medium' exactly when it is above 40 and at
\* most 70, 'Low' otherwise; exactly one bucket is returned.
C4_RiskBuckets ==
    PredictOk =>
        LET toxic_prob == ToxicPercent(prediction_prob)
        IN  /\ response.risk_level \in {"High", "Medium", "Low"}
            /\ response.risk_level = "High" <=> toxic_prob > 70 * 1000000
            /\ response.risk_level = "Medium" <=>
                  (toxic_prob > 40 * 1000000 /\ toxic_prob <= 70 * 1000000)
            /\ response.risk_level = "Low" <=> toxic_prob <= 40 * 1000000

\* A toxic percentage of exactly 70 answered 'Medium'.
C4_Witness ==
    /\ PredictOk
    /\ prediction_prob[2] * 100 = 70 * 1000000
    /\ response.risk_level = "Medium"

FactorTexts == {RiskChecks[i].text : i \in 1..Len(RiskChecks)}

\* Every subset of the five risk factors is the risk_factors list of the 200
\* response to some numeric request.
AllSubsetsProducible ==
    \A wanted \in SUBSET FactorTexts :
        \E m \in NumericMaps :
            LET resp == PredictInterpret(Object(m), << >>, <<ProbOne, 0, 0>>, 10000, 0)
            IN  resp.status = 200 /\ Range(resp.risk_factors) = wanted

\* C5: the five risk-factor checks are independent: changing one of the five
\* fields of a numeric request leaves the presence of the four factors of the
\* other fields as it is in the response, and every subset of the five factors
\* is producible.
C5_IndependentFactors ==
    /\ AllSubsetsProducible
    /\ PredictOk =>
          \A i \in 1..Len(RiskChecks) :
              \A v \in NumericValues(RiskChecks[i].key) :
                  LET changed == Object(With(Body, RiskChecks[i].key, v))
                      other == PredictInterpret(changed, << >>, prediction_prob,
                                                response.non_toxic, response.toxic)
                  IN  /\ other.status = 200
                      /\ \A j \in (1..Len(RiskChecks)) \ {i} :
                            RiskChecks[j].text \in Range(other.risk_factors)
                                <=> RiskChecks[j].text \in Range(response.risk_factors)

\* A response listing all five factors.
C5_Witness == PredictOk /\ Range(response.risk_factors) = FactorTexts

\* C6: with the artifacts loaded, the deployment check's body is answered 200
\* by /predict, with prediction_text 'Toxic' or 'Non-Toxic', confidence in
\* [0, 100], the metal and the surface-area risk factors, and no
\* high-concentration factor.
C6_DeploymentCheck ==
    (AllLoaded /\ Responded("/predict") /\ request.data = Object(test_data)) =>
        /\ response.status = 200
        /\ response.prediction_text \in {"Toxic", "Non-Toxic"}
        /\ response.confidence >= 0 /\ response.confidence <= 10000
        /\ "Metal nanoparticles can have higher toxicity" \in Range(response.risk_factors)
        /\ "High surface area enhances reactivity" \in Range(response.risk_factors)
        /\ "High concentration increases exposure risk" \notin Range(response.risk_factors)

\* The deployment check's body answered 200.
C6_Witness ==
    /\ AllLoaded /\ Responded("/predict") /\ request.data = Object(test_data)
    /\ response.status = 200
    /\ Len(response.risk_factors) = 3

Tier(name) == response.feature_analysis[name].risk_level
Between(v, low, high) == v.n > low * 10 /\ v.n <= high * 10

\* C7: the per-feature tiers and the risk-factor list use different thresholds:
\* particle_size_nm = 30 gives the 'High' tier in /detailed-analysis and the
\* small-particle factor in /predict; surface_area_m2g in (100, 200] and
\* concentration_mgl in (100, 500] give their factor in /predict and the 'Low'
\* tier in /detailed-analysis.
C7_DistinctThresholds ==
    /\ (PredictOk /\ Body["particle_size_nm"] = Num(30, 0))
          => "Small particle size increases bioavailability" \in Range(response.risk_factors)
    /\ (PredictOk /\ Between(Body["surface_area_m2g"], 100, 200))
          => "High surface area enhances reactivity" \in Range(response.risk_factors)
    /\ (PredictOk /\ Between(Body["concentration_mgl"], 100, 500))
          => "High concentration increases exposure risk" \in Range(response.risk_factors)
    /\ (AnalysisOk /\ "particle_size_nm" \in ListedNames
            /\ Body["particle_size_nm"] = Num(30, 0))
          => Tier("particle_size_nm") = "High"
    /\ (AnalysisOk /\ "surface_area_m2g" \in ListedNames
            /\ Between(Body["surface_area_m2g"], 100, 200))
          => Tier("surface_area_m2g") = "Low"
    /\ (AnalysisOk /\ "concentration_mgl" \in ListedNames
            /\ Between(Body["concentration_mgl"], 100, 500))
          => Tier("concentration_mgl") = "Low"

\* A detailed analysis of particle size 30, surface area 150, concentration 300.
C7_Witness ==
    /\ AnalysisOk
    /\ feature_info.names = FeatureOrder
    /\ Body["particle_size_nm"] = Num(30, 0)
    /\ Body["surface_area_m2g"] = Num(150, 0)
    /\ Body["concentration_mgl"] = Num(300, 0)
    /\ Tier("particle_size_nm") = "High"
    /\ Tier("surface_area_m2g") = "Low"

\* The eight entries of the status trace of a completed /predict.
StatusTrace ==
    << StatusEntry("validation", "processing"), StatusEntry("validation", "completed"),
       StatusEntry("preprocessing", "processing"), StatusEntry("preprocessing", "completed"),
       StatusEntry("prediction", "processing"), StatusEntry("prediction", "completed"),
       StatusEntry("interpretation", "processing"),
       StatusEntry("interpretation", "completed") >>

IsPrefix(s, t) == Len(s) <= Len(t) /\ \A i \in 1..Len(s) : s[i] = t[i]

\* A 500 'Prediction failed' carrying the first n entries of the trace.
PredictionFailed(n) ==
    /\ response.status = 500
    /\ response.error = "Prediction failed"
    /\ response.status_log = SubSeq(StatusTrace, 1, n)

ListedPresent ==
    request.data.kind = "object" /\ \A name \in ListedNames : name \in DOMAIN Body
ListedCoercible == ListedPresent /\ \A name \in ListedNames : Coercible(Body[name])
ListedFinite ==
    ListedCoercible /\ \A name \in ListedNames : Body[name] # Str("inf")

\* The fields /predict orders against a threshold on the raw request.
OrderedKeys == {"particle_size_nm", "surface_area_m2g", "concentration_mgl", "aspect_ratio"}
OrderedKeysNumeric == \A k \in OrderedKeys \cap DOMAIN Body : Body[k].kind = "num"

\* C8: an exception raised in /predict after the loaded check (in body parsing,
\* float coercion, scaling or interpretation) is answered 500 'Prediction
\* failed' with the part of the status trace recorded before it, and the process
\* keeps serving: a valid request after it is answered 200.
C8_ExceptionsCaught ==
    /\ errors > 0 => pc = "serving"
    /\ (AllLoaded /\ Responded("/predict")) =>
          /\ response.status \in {200, 400, 500}
          /\ response.status = 500 =>
                (response.error = "Prediction failed"
                    /\ IsPrefix(response.status_log, StatusTrace))
          /\ request.data.kind = "invalid" => PredictionFailed(0)
          /\ request.data.kind \in {"null", "number"} => PredictionFailed(1)
          /\ (ListedPresent /\ ~ListedCoercible) => PredictionFailed(1)
          /\ (ListedCoercible /\ ~ListedFinite) => PredictionFailed(3)
          /\ (ListedFinite /\ ~OrderedKeysNumeric) => PredictionFailed(7)
          /\ (errors > 0 /\ ListedFinite /\ OrderedKeysNumeric) =>
                (response.status = 200 /\ response.status_log = StatusTrace)

\* A 200 answer of /predict after an exception was caught.
C8_Witness == errors > 0 /\ PredictOk /\ pc = "serving"

Failed(endpoint) == IF endpoint = "/predict" THEN "Prediction failed" ELSE "Analysis failed"

\* C9 as stated: a listed feature that is present with a value float() refuses,
\* or a body that is no JSON object, is answered 400 by /predict and
\* /detailed-analysis, not 500.
C9_Original ==
    (AllLoaded /\ RespondedExtraction
        /\ (request.data.kind # "object" \/ (ListedPresent /\ ~ListedCoercible)))
        => response.status = 400

\* Position in the feature list of the first name that the body lacks or holds
\* with a value float() refuses.
FirstBad ==
    CHOOSE i \in 1..Len(feature_info.names) :
        LET bad(j) == \/ feature_info.names[j] \notin DOMAIN Body
                      \/ ~Coercible(Body[feature_info.names[j]])
        IN  bad(i) /\ \A j \in 1..(i - 1) : ~bad(j)

\* C9 amended: a listed feature that is present with a value float() refuses is
\* answered 500 '<Prediction|Analysis> failed' (unless a listed name before it is
\* absent); so is a body that is null, a number or no JSON; an array or string
\* body is answered 400 'Missing feature' naming the first listed name, or 500
\* when it holds that name; 400 is answered only for an absent name.
C9_MalformedIs500 ==
    (AllLoaded /\ RespondedExtraction) =>
        LET failed == /\ response.status = 500
                      /\ response.error = Failed(request.endpoint)
            missing(name) == /\ response.status = 400
                             /\ response.error = "Missing feature"
                             /\ response.detail = name
        IN  /\ (request.data.kind = "object" /\ ~ListedCoercible) =>
                  IF feature_info.names[FirstBad] \in DOMAIN Body
                  THEN failed /\ response.detail \in {"ValueError", "TypeError"}
                  ELSE missing(feature_info.names[FirstBad])
            /\ request.data.kind \in {"invalid", "null", "number"} => failed
            /\ request.data.kind \in {"array", "string"} =>
                  IF feature_info.names[1] \in request.data.items
                  THEN failed
                  ELSE missing(feature_info.names[1])
            /\ response.status = 400 =>
                  (response.error = "Missing feature"
                      /\ (request.data.kind = "object"
                            => response.detail \notin DOMAIN Body))

\* /detailed-analysis answering 500 for a body that holds every listed name,
\* one of them with the value "abc".
C9_Witness ==
    /\ AllLoaded /\ Responded("/detailed-analysis")
    /\ ListedPresent
    /\ \E name \in ListedNames : Body[name] = Str("abc")
    /\ response.status = 500
    /\ response.error = "Analysis failed"
    /\ response.detail = "ValueError"

\* C10 as stated: with the artifacts loaded, a request holding every listed
\* feature with a number or a numeric string such as "30" is answered 200 by
\* /predict and /detailed-analysis (as the request with the equal numbers is).
C10_Original ==
    (AllLoaded /\ RespondedExtraction /\ ListedPresent
        /\ \A k \in DOMAIN Body :
              Body[k].kind = "num" \/ (k \in ListedNames /\ Body[k] = Str("30")))
        => response.status = 200

\* An artifact file that exists and that pickle.load() reads.
PresentAndValid(file) == file \notin {"missing", "corrupt"}

\* C11 as stated: after startup each flag of /health (model_loaded,
\* scaler_loaded, features_loaded) is true exactly when that artifact's own file
\* was present and valid, whatever happened to the other two files, and the
\* process serves in every combination.
C11_Original ==
    /\ pc = "startup" => ENABLED LoadMlModel
    /\ Responded("/health") =>
          /\ response.status = 200
          /\ response.model_loaded <=> PresentAndValid(files.model)
          /\ response.scaler_loaded <=> PresentAndValid(files.scaler)
          /\ response.features_loaded <=> PresentAndValid(files.feature)

\* What load_ml_model() of the running application makes of the files on disk.
StartupResult == IF app = "api" THEN LoadApi(files) ELSE LoadWebapp(files)

Stage(step) ==
    << [step |-> step, status |-> "processing"], [step |-> step, status |-> "completed"] >>

\* The trace of a completed /predict, as the claim lists it.
EightEntries ==
    Stage("validation") \o Stage("preprocessing") \o Stage("prediction")
        \o Stage("interpretation")

NonDecreasing(seq) == \A i \in 1..(Len(seq) - 1) : seq[i] <= seq[i + 1]

Min2(a, b) == IF a <= b THEN a ELSE b

\* C14: in every 200 answer of /predict, feature_importance holds exactly
\* min(5, number of listed features) entries, each a listed feature name with
\* its own importance (rounded to four decimals), and no omitted feature has an
\* importance strictly greater than that of an included one.
C14_TopFive ==
    PredictOk =>
        LET included == DOMAIN response.feature_importance
        IN  /\ Cardinality(included) = Min2(5, Len(feature_info.names))
            /\ included \subseteq ListedNames
            /\ \A name \in included :
                  response.feature_importance[name] * 100 - ImportanceOf(name) \in -50..50
            /\ \A name \in included : \A omitted \in ListedNames \ included :
                  ImportanceOf(omitted) <= ImportanceOf(name)

\* A 200 answer for the nine listed features that omits a feature as important
\* as one it includes, and one it lists before all five in the request.
C14_Witness ==
    /\ PredictOk
    /\ Len(feature_info.names) = 9
    /\ "exposure_time_h" \notin DOMAIN response.feature_importance
    /\ "zeta_potential_mv" \in DOMAIN response.feature_importance
    /\ "ph" \notin DOMAIN response.feature_importance

\* C15: in every 200 answer of /detailed-analysis each listed feature has
\* exactly one tier: 'High' only for particle_size_nm < 50 or concentration_mgl
\* > 500, 'Medium' only for surface_area_m2g > 200 or |zeta_potential_mv| < 15,
\* 'Low' otherwise; the three counts of risk_distribution are the numbers of
\* features in each tier and sum to the number of listed features.
C15_FeatureTiers ==
    AnalysisOk =>
        LET analysis == response.feature_analysis
            counts == response.risk_distribution
            n(name) == Body[name].n
            high(name) == \/ name = "particle_size_nm" /\ n(name) < 500
                          \/ name = "concentration_mgl" /\ n(name) > 5000
            medium(name) == \/ name = "surface_area_m2g" /\ n(name) > 2000
                            \/ name = "zeta_potential_mv" /\ n(name) > -150 /\ n(name) < 150
        IN  /\ DOMAIN analysis = ListedNames
            /\ \A name \in ListedNames :
                  /\ analysis[name].risk_level \in {"Low", "Medium", "High"}
                  /\ analysis[name].risk_level = "High" <=> high(name)
                  /\ analysis[name].risk_level = "Medium" <=> medium(name)
            /\ \A tier \in {"Low", "Medium", "High"} :
                  counts[tier] =
                      Cardinality({name \in ListedNames : analysis[name].risk_level = tier})
            /\ counts["Low"] + counts["Medium"] + counts["High"] = Len(feature_info.names)

\* An analysis of the nine features with one 'High' tier (concentration 600),
\* two 'Medium' tiers (surface area 250, zeta potential 10) and six 'Low' ones,
\* the particle size of exactly 50 among them.
C15_Witness ==
    /\ AnalysisOk
    /\ Len(feature_info.names) = 9
    /\ Body["particle_size_nm"] = Num(50, 0)
    /\ response.risk_distribution["High"] = 1
    /\ response.risk_distribution["Medium"] = 2
    /\ response.risk_distribution["Low"] = 6

\* C16: the trainer and the server agree on the scaler's file only: the trainer
\* writes nanomaterial_toxicity_model.h5, feature_scaler.pkl and
\* feature_names.pkl, the server opens nanomaterial_toxicity_model.pkl,
\* feature_scaler.pkl and feature_info.pkl; started in a directory holding only
\* the trainer's files, the server loads neither model nor feature info,
\* /health reports model_loaded and features_loaded false, and /predict
\* answers 500.
C16_TrainerMismatch ==
    /\ TrainerFiles \cap {model_path, scaler_path, feature_path} = {scaler_path}
    /\ files = DiskHolding(TrainerFiles) =>
          /\ pc = "serving" => (model = None /\ feature_info.none)
          /\ Responded("/health") =>
                (~response.model_loaded /\ ~response.features_loaded)
          /\ Responded("/predict") => response.status = 500

\* The deployment check's body answered 500 by a server started on the
\* trainer's files.
C16_Witness ==
    /\ files = DiskHolding(TrainerFiles)
    /\ Responded("/predict")
    /\ request.data = Object(test_data)
    /\ response.status = 500
    /\ response.error = "Model not loaded properly"

\* C17 as stated: a risk factor is in the risk_factors of a 200 answer of
\* /predict only if the request body holds the factor's field with a value
\* meeting its threshold (particle_size_nm < 50, surface_area_m2g > 100,
\* concentration_mgl > 100, material_type == 1, aspect_ratio > 10); a field the
\* body does not hold never triggers its factor.
C17_Original ==
    PredictOk =>
        \A i \in 1..Len(RiskChecks) :
            RiskChecks[i].text \in Range(response.risk_factors) =>
                /\ RiskChecks[i].key \in DOMAIN Body
                /\ Body[RiskChecks[i].key].kind = "num"
                /\ CASE RiskChecks[i].op = "<" -> Body[RiskChecks[i].key].n < RiskChecks[i].c * 10
                     [] RiskChecks[i].op = ">" -> Body[RiskChecks[i].key].n > RiskChecks[i].c * 10
                     [] OTHER -> Body[RiskChecks[i].key].n = RiskChecks[i].c * 10

\* C18 as stated: for the same loaded artifacts, the same valid body and the
\* same output of the model, risk_level of /predict and overall_risk of
\* /detailed-analysis are the same bucket, and the prediction class, text,
\* confidence and probability pair of the two answers are identical.
C18_Original ==
    (PredictOk \/ AnalysisOk) =>
        LET names == feature_info.names
            other == IF PredictOk
                     THEN AnalysisInterpret(request.data, names,
                                            Extract(request.data, names).features,
                                            prediction_prob,
                                            response.non_toxic, response.toxic)
                     ELSE PredictInterpret(request.data, << >>, prediction_prob,
                                           response.non_toxic, response.toxic)
            bucket(r) == IF r.overall_risk # "" THEN r.overall_risk ELSE r.risk_level
        IN  other.status = 200 =>
                /\ bucket(other) = bucket(response)
                /\ other.prediction = response.prediction
                /\ other.prediction_text = response.prediction_text
                /\ other.confidence = response.confidence
                /\ other.non_toxic = response.non_toxic
                /\ other.toxic = response.toxic

\* C20 as stated: after startup /predict and /detailed-analysis answer 500
\* 'Model not loaded properly' exactly when at least one of the three flags of
\* /health is false, /features answers 500 exactly when features_loaded is
\* false, and /model-info answers 500 'Model not loaded' exactly when
\* model_loaded is false.
C20_Original ==
    LET model_loaded == model # None
        scaler_loaded == scaler # None
        features_loaded == ~feature_info.none
    IN  /\ RespondedExtraction =>
              ((response.status = 500 /\ response.error = "Model not loaded properly")
                  <=> ~(model_loaded /\ scaler_loaded /\ features_loaded))
        /\ Responded("/features") => (response.status = 500 <=> ~features_loaded)
        /\ Responded("/model-info") =>
              ((response.status = 500 /\ response.error = "Model not loaded")
                  <=> ~model_loaded)

\* C21: in both applications the artifacts are loaded in the order model,
\* scaler, feature info and loading stops at the first failure: after startup an
\* artifact is loaded exactly when its file and the files before it are valid
\* (and, in api/index.py, no file of the three is missing), so features_loaded
\* implies scaler_loaded, scaler_loaded implies model_loaded, and in
\* api/index.py nothing is loaded when one of the three files does not exist.
C21_LoadedPrefix ==
    pc = "serving" =>
        LET model_loaded == model # None
            scaler_loaded == scaler # None
            features_loaded == ~feature_info.none
            all_exist == "missing" \notin {files.model, files.scaler, files.feature}
            may_load == app = "webapp" \/ all_exist
        IN  /\ features_loaded => scaler_loaded
            /\ scaler_loaded => model_loaded
            /\ (app = "api" /\ ~all_exist) =>
                  (~model_loaded /\ ~scaler_loaded /\ ~features_loaded)
            /\ model_loaded <=> (may_load /\ PresentAndValid(files.model))
            /\ scaler_loaded <=> (model_loaded /\ PresentAndValid(files.scaler))
            /\ features_loaded <=> (scaler_loaded /\ PresentAndValid(files.feature))
            /\ Responded("/health") =>
                  /\ response.features_loaded => response.scaler_loaded
                  /\ response.scaler_loaded => response.model_loaded

\* /health of webapp/app.py reporting the model alone as loaded: the scaler's
\* file is unreadable and the valid feature_info.pkl after it was not opened.
C21_Witness ==
    /\ app = "webapp"
    /\ Responded("/health")
    /\ files.scaler = "corrupt" /\ files.feature = "ok"
    /\ response.model_loaded
    /\ ~response.scaler_loaded
    /\ ~response.features_loaded

====
